---- MODULE Spec2Model ----
(***************************************************************************)
(* SkillSwap: the credit-settlement and swap-lifecycle subsystem.          *)
(*                                                                         *)
(* The subsystem lives in the database schema: the tables profiles, swaps  *)
(* and transactions, their row-level security policies, and the stored     *)
(* procedure handle_swap_completion (SECURITY DEFINER).  Every client      *)
(* request is one database transaction at READ COMMITTED, the default      *)
(* isolation level: a statement reads the latest committed rows (and the   *)
(* transaction's own writes), an UPDATE locks the row until the            *)
(* transaction ends, and an UPDATE that finds the row locked waits and     *)
(* then works on the row's latest committed version.                       *)
(***************************************************************************)
EXTENDS Integers, Sequences, FiniteSets, TLC

\* ------------------------------------------------------------------ bounds
\* settlements (committed or running) the model lets happen
MaxPayments == 2

\* ------------------------------------------------------- program constants
DefaultCredits == 100

\* ------------------------------------------------------------- input sets
Users == {"u1", "u2", "u3"}
\* auth.uid() of a request that carries no authenticated subject
NULL == "null"
Callers == Users \cup {NULL}
Sessions == {"s1", "s2"}
\* primary keys the database hands out, in this order
SwapIds == {"w1", "w2"}
\* the skills on offer: k1 is taught by u1, k2 by u2
SkillIds == {"k1", "k2"}

\* the swap requests clients send:
\* <<teacher_id, learner_id, total_credits, skill_id, duration_hours>>
Requests ==
    { <<"u1", "u2", 40, "k1", 1>>, <<"u1", "u2", 60, "k1", 1>>,
      <<"u2", "u1", 40, "k2", 1>>, <<"u2", "u2", 40, "k2", 1>> }

\* the identities provisioning runs for: one that has a profile, one new
ProvisionIds == {"u2", "u4"}
\* the names and pictures an identity provider reports (NULL: none)
FullNames == {"ann", "bob", NULL}
AvatarUrls == {"pic", NULL}

\* SkillForm: the tags a user types, trimmed
TagInputs == {"a", "b", "c", "d", "e", "f"}
\* SkillForm: formData.title.toLowerCase()
TitleTag == "title"
\* the lists the function generate-skill-details sends back as data.tags
AITagLists ==
    { <<"a", "b", "c">>, <<"a", "a", "b">>, <<"a", "b", "c", "d", "e", "f">> }
\* Tags (up to 5)
MaxTags == 5

\* SkillSearch: the initial filters, and the ones a user changes them to
DefaultFilters == "f0"
FilterValues == {"f0", "f1", "f2"}
\* the 300 ms of the search timeout, in clock ticks of 100 ms
DebounceTicks == 3

\* useAuth: the users who sign in on this browser
AuthUsers == {"u1", "u2"}

\* useGeolocation: the positions the browser reports and the ones typed in
Positions == {"gps1", "gps2", "gps3", "gps4"}
\* setManualLocation(lat, lng, name?): a place with or without a name
ManualLocations == {"m1", "m2", "m1 named", "m2 named"}
\* the messages for an unknown code, PERMISSION_DENIED, POSITION_UNAVAILABLE
\* and TIMEOUT
PositionErrors ==
    {"Failed to get location", "Location access denied by user",
     "Location information unavailable", "Location request timed out"}
\* position requests the model lets be outstanding together
MaxPositionRequests == 4

\* fetchSkills calls the model lets be in flight together
MaxInFlight == 2
\* calls counts up to this number and stays there
CallsCap == 2

\* the column sets clients pass to updateProfile(updates)
ProfileUpdates == { [credits |-> 0], [credits |-> 250], [credits |-> -10] }

SwapStatuses ==
    {"pending", "accepted", "in_progress", "completed", "declined", "cancelled"}

\* the statuses clients write while settlements run concurrently: for
\* handle_swap_completion every status but in_progress is the same case
SettleStatuses == {"pending", "in_progress", "completed"}

NoRecord == [teacher_id |-> NULL, learner_id |-> NULL,
             status |-> "none", total_credits |-> 0,
             skill_id |-> NULL, duration_hours |-> 0]

\* what an UPDATE that matched no row sends back
NoRows == [rows |-> 0, status |-> "none", changed |-> FALSE]

VARIABLES
    profiles,       \* committed table profiles: id -> row
    swaps,          \* committed table swaps: id -> row, for the ids in use
    transactions,   \* committed table transactions: sequence of rows
    pc,             \* per session: position inside handle_swap_completion
    swap_uuid,      \* per session: the argument of the running call
    swap_record,    \* per session: the local variable swap_record
    wprofiles,      \* per session: uncommitted profile rows (rows it locks)
    wswaps,         \* per session: uncommitted swap rows (rows it locks)
    peerWon,        \* per session: a call that ran concurrently with this one
                    \* on the same swap has returned success
    response,       \* the JSON result the latest finished call returned
    skills,         \* committed table skills: id -> row
    requests,       \* status writes clients have decided on and not yet sent
    returned,       \* what the latest status write a client had decided on
                    \* sent back: the number of rows, the status of the
                    \* row, and whether the write altered the row
    names,          \* committed table profiles, the columns full_name and
                    \* avatar_url: id -> row
    tags,           \* SkillForm: formData.tags
    aiLoading,      \* SkillForm: a generate-skill-details call is under way
    filters,        \* SkillSearch: the state filters
    timer,          \* SkillSearch: the pending timeouts of the search effect
    calls,          \* onSearch calls made since the filters last changed
    inflight,       \* App: the fetchSkills calls that await their response
    lastIssued,     \* App: the filters of the latest fetchSkills call
    shown,          \* App: the state skills, as the filters it answers
    loading,        \* App: the state loading
    appError,       \* App: the state error is set
    auth,           \* useAuth: the state (user, profile, session, loading)
    authPending,    \* useAuth: the awaits that have not resolved yet
    signedOut,      \* useAuth: the latest auth event handled was SIGNED_OUT
    geo,            \* useGeolocation: the state (location, loading, error)
    outstanding,    \* useGeolocation: position requests without a callback yet
    supported       \* the browser has navigator.geolocation

dbvars == <<profiles, swaps, transactions>>
sessvars == <<pc, swap_uuid, swap_record, wprofiles, wswaps, peerWon, response>>
formvars == <<tags, aiLoading>>
searchvars == <<filters, timer, calls, inflight, lastIssued, shown, loading, appError>>
authvars == <<auth, authPending, signedOut>>
geovars == <<geo, outstanding, supported>>
uivars == <<formvars, searchvars, authvars, geovars>>
othervars == <<skills, requests, returned, names, uivars>>
vars == <<profiles, swaps, transactions, pc, swap_uuid, swap_record,
          wprofiles, wswaps, peerWon, response, skills, requests, returned,
          names, tags, aiLoading, filters, timer, calls, inflight, lastIssued,
          shown, loading, appError, auth, authPending, signedOut, geo, outstanding,
          supported>>
backvars == <<dbvars, sessvars, skills, requests, returned, names>>

\* ------------------------------------------------------------------ schema

\* profiles.credits INTEGER DEFAULT 100 CHECK (credits >= 0)
CreditsCheck(c) == c >= 0

\* swaps.status CHECK (status IN (...))
StatusCheck(st) == st \in SwapStatuses

NewProfile == [credits |-> DefaultCredits, skills_taught |-> 0, skills_learned |-> 0]

\* skills: user_id REFERENCES profiles(id), is_active BOOLEAN DEFAULT TRUE
NewSkill(u) == [user_id |-> u, is_active |-> TRUE]

\* policy "Users can create swap requests": WITH CHECK (auth.uid() = learner_id)
\* (a NULL auth.uid() makes the comparison NULL, which a policy treats as false)
CanInsertSwap(u, row) == u # NULL /\ u = row.learner_id

\* policy "Users can update their swaps":
\*   USING (auth.uid() = teacher_id OR auth.uid() = learner_id)
CanUpdateSwap(u, row) == u # NULL /\ (u = row.teacher_id \/ u = row.learner_id)

\* policy "Users can update own profile": FOR UPDATE USING (auth.uid() = id)
CanUpdateProfile(u, id) == u # NULL /\ u = id

\* the keys no row and no running call refers to
FreeSwapIds ==
    SwapIds \ (DOMAIN swaps \cup {swap_uuid[s] : s \in {t \in DOMAIN pc : pc[t] # "idle"}})

\* policy "Users can insert own profile": FOR INSERT WITH CHECK (auth.uid() = id)
CanInsertProfile(u, id) == u # NULL /\ u = id

\* id UUID DEFAULT gen_random_uuid(): a key not in use
NewSwapId == IF "w1" \in FreeSwapIds THEN "w1" ELSE "w2"

\* policy "Users can manage own skills": FOR ALL USING (auth.uid() = user_id)
CanManageSkill(u, row) == u # NULL /\ u = row.user_id

\* ------------------------------------------------- transaction visibility

\* rows another transaction has written and not yet committed are locked
ProfileLocked(s, u) == \E t \in Sessions \ {s} : u \in DOMAIN wprofiles[t]
SwapLocked(s, w) == \E t \in Sessions \ {s} : w \in DOMAIN wswaps[t]
SwapLockedByAny(w) == \E t \in Sessions : w \in DOMAIN wswaps[t]

\* the row version a statement of session s works on
VisibleProfile(s, u) ==
    IF u \in DOMAIN wprofiles[s] THEN wprofiles[s][u] ELSE profiles[u]

WriteProfile(s, u, row) ==
    [x \in (DOMAIN wprofiles[s]) \cup {u} |->
        IF x = u THEN row ELSE wprofiles[s][x]]

\* COMMIT: the transaction's rows replace the committed ones
CommittedProfiles(s) ==
    [u \in DOMAIN profiles |->
        IF u \in DOMAIN wprofiles[s] THEN wprofiles[s][u] ELSE profiles[u]]

CommittedSwaps(s) ==
    [w \in DOMAIN swaps |-> IF w \in DOMAIN wswaps[s] THEN wswaps[s][w] ELSE swaps[w]]

Empty == [x \in {} |-> 0]

\* the components as they are mounted
UIInit ==
    /\ tags = <<>>
    /\ aiLoading = FALSE
    /\ filters = DefaultFilters
    /\ timer = {[filters |-> DefaultFilters, remaining |-> DebounceTicks]}
    /\ calls = 0
    /\ inflight = <<>>
    /\ lastIssued = "none"
    /\ shown = "none"
    /\ loading = TRUE
    /\ appError = FALSE
    /\ auth = [user |-> NULL, profile |-> NULL, session |-> NULL, loading |-> TRUE]
    /\ authPending = {[await |-> "getSession", user |-> NULL]}
    /\ signedOut = FALSE
    /\ geo = [location |-> NULL, loading |-> FALSE, error |-> NULL]
    /\ outstanding = 0

BaseInit ==
    /\ UIInit
    /\ profiles = [u \in Users |-> NewProfile]
    /\ swaps = Empty
    /\ transactions = <<>>
    /\ pc = [s \in Sessions |-> "idle"]
    /\ swap_uuid = [s \in Sessions |-> "w1"]
    /\ swap_record = [s \in Sessions |-> NoRecord]
    /\ wprofiles = [s \in Sessions |-> Empty]
    /\ wswaps = [s \in Sessions |-> Empty]
    /\ peerWon = [s \in Sessions |-> FALSE]
    /\ response = "none"
    /\ skills = [k \in SkillIds |-> NewSkill(IF k = "k1" THEN "u1" ELSE "u2")]
    /\ requests = {}
    /\ returned = NoRows
    /\ names = [u \in Users |-> [full_name |-> "ann", avatar_url |-> NULL]]

\* the application in a browser that has navigator.geolocation
Init == BaseInit /\ supported = TRUE

\* the application in a browser with or without navigator.geolocation
GeoInit == BaseInit /\ supported \in BOOLEAN

\* ------------------------------------------------- direct writes to swaps

\* INSERT INTO swaps by user u through the table API
InsertSwap(u, teacher, st, amount, skill, hours) ==
    LET row == [teacher_id |-> teacher, learner_id |-> u,
                status |-> st, total_credits |-> amount,
                skill_id |-> skill, duration_hours |-> hours]
        id == NewSwapId
    IN /\ FreeSwapIds # {}
       /\ CanInsertSwap(u, row)
       /\ teacher \in Users
       /\ skill \in DOMAIN skills
       /\ StatusCheck(st)
       /\ swaps' = [w \in (DOMAIN swaps) \cup {id} |->
                       IF w = id THEN row ELSE swaps[w]]
       /\ UNCHANGED <<profiles, transactions, sessvars, othervars>>

\* UPDATE swaps SET status = st WHERE id = w by user u through the table API
UpdateSwap(u, w, st) ==
    /\ w \in DOMAIN swaps
    /\ CanUpdateSwap(u, swaps[w])
    /\ ~SwapLockedByAny(w)
    /\ StatusCheck(st)
    /\ st # swaps[w].status
    /\ swaps' = [swaps EXCEPT ![w].status = st]
    /\ UNCHANGED <<profiles, transactions, sessvars, othervars>>

\* a status write that always lands on pending
UpdatedSwapReset(row, st) == [row EXCEPT !.status = "pending"]

\* UPDATE swaps SET status = st: the row after the write
UpdatedSwap(row, st) == [row EXCEPT !.status = st]

\* a user looks at a swap they take part in and decides on the status to
\* write next; a user has one such request under way at a time
Decide(u, w, st) ==
    /\ w \in DOMAIN swaps
    /\ CanUpdateSwap(u, swaps[w])
    /\ StatusCheck(st)
    /\ \A r \in requests : r.uid # u
    /\ requests' = requests \cup
           {[uid |-> u, swap |-> w, from |-> swaps[w].status, to |-> st]}
    /\ UNCHANGED <<dbvars, sessvars, skills, returned, names, uivars>>

\* the request reaches the database:
\* UPDATE swaps SET status = r.to WHERE id = r.swap, returning the row
Send(r) ==
    /\ r \in requests
    /\ ~SwapLockedByAny(r.swap)
    /\ requests' = requests \ {r}
    /\ IF r.swap \in DOMAIN swaps /\ CanUpdateSwap(r.uid, swaps[r.swap])
       THEN /\ swaps' = [swaps EXCEPT ![r.swap] = UpdatedSwap(swaps[r.swap], r.to)]
            /\ returned' = [rows |-> 1, status |-> swaps'[r.swap].status,
                            changed |-> swaps' # swaps]
       ELSE /\ swaps' = swaps
            /\ returned' = NoRows
    /\ UNCHANGED <<profiles, transactions, sessvars, skills, names, uivars>>

\* ------------------------------------------------ direct writes to skills

\* UPDATE skills SET is_active = active WHERE id = k by user u
UpdateSkill(u, k, active) ==
    /\ k \in DOMAIN skills
    /\ CanManageSkill(u, skills[k])
    /\ active # skills[k].is_active
    /\ skills' = [skills EXCEPT ![k].is_active = active]
    /\ UNCHANGED <<dbvars, sessvars, requests, returned, names, uivars>>

\* the swaps whose skill_id REFERENCES skills(id) ON DELETE CASCADE names k
SwapsOfSkill(k) == {w \in DOMAIN swaps : swaps[w].skill_id = k}

\* transactions.swap_id REFERENCES swaps(id) ON DELETE CASCADE
RECURSIVE WithoutSwaps(_, _)
WithoutSwaps(txs, gone) ==
    IF txs = <<>> THEN <<>>
    ELSE IF Head(txs).swap_id \in gone THEN WithoutSwaps(Tail(txs), gone)
    ELSE <<Head(txs)>> \o WithoutSwaps(Tail(txs), gone)

\* DELETE FROM skills WHERE id = k by user u: the delete cascades to the
\* swaps of the skill and from them to their transactions
DeleteSkill(u, k) ==
    /\ k \in DOMAIN skills
    /\ CanManageSkill(u, skills[k])
    /\ \A w \in SwapsOfSkill(k) : ~SwapLockedByAny(w)
    /\ skills' = [j \in DOMAIN skills \ {k} |-> skills[j]]
    /\ swaps' = [w \in DOMAIN swaps \ SwapsOfSkill(k) |-> swaps[w]]
    /\ transactions' = WithoutSwaps(transactions, SwapsOfSkill(k))
    /\ UNCHANGED <<profiles, sessvars, requests, returned, names, uivars>>

\* ---------------------------------------------- direct writes to profiles

\* UPDATE profiles SET <updates>: the named columns take the given values
ApplyUpdates(row, updates) ==
    [c \in DOMAIN row |-> IF c \in DOMAIN updates THEN updates[c] ELSE row[c]]

\* updateProfile(updates) of useAuth, sent by user u for the row id:
\* supabase.from('profiles').update(updates).eq('id', id)
UpdateProfile(u, id, updates) ==
    /\ id \in Users
    /\ CanUpdateProfile(u, id)
    /\ \A s \in Sessions : id \notin DOMAIN wprofiles[s]
    /\ CreditsCheck(ApplyUpdates(profiles[id], updates).credits)
    /\ profiles' = [profiles EXCEPT ![id] = ApplyUpdates(profiles[id], updates)]
    /\ UNCHANGED <<swaps, transactions, sessvars, othervars>>

\* ------------------------------------------------------------ provisioning

\* COALESCE(a, b): the first argument that is not NULL
Coalesce(a, b) == IF a # NULL THEN a ELSE b

\* an ON CONFLICT clause that also puts the balance back to the default
OnConflictCreditsReset(row) == [row EXCEPT !.credits = DefaultCredits]

\* ON CONFLICT (id) DO UPDATE SET full_name, avatar_url, updated_at: the
\* columns credits, skills_taught and skills_learned are not in the SET list
OnConflictCredits(row) == row

\* ON CONFLICT (id) DO UPDATE SET
\*   full_name = COALESCE(EXCLUDED.full_name, profiles.full_name),
\*   avatar_url = COALESCE(EXCLUDED.avatar_url, profiles.avatar_url)
OnConflictNames(row, excluded) ==
    [full_name |-> Coalesce(excluded.full_name, row.full_name),
     avatar_url |-> Coalesce(excluded.avatar_url, row.avatar_url)]

\* table t with the row for id put in or replaced
WithRow(t, id, row) == [x \in DOMAIN t \cup {id} |-> IF x = id THEN row ELSE t[x]]

\* trigger on_auth_user_created for NEW.id = id: handle_new_user() inserts the
\* profile, or updates it when the id has one
HandleNewUser(id, full_name, avatar_url) ==
    LET excluded == [full_name |-> full_name, avatar_url |-> avatar_url]
    IN /\ \A s \in Sessions : id \notin DOMAIN wprofiles[s]
       /\ IF id \in DOMAIN profiles
          THEN /\ profiles' = [profiles EXCEPT ![id] = OnConflictCredits(profiles[id])]
               /\ names' = [names EXCEPT ![id] = OnConflictNames(names[id], excluded)]
          ELSE /\ profiles' = WithRow(profiles, id, NewProfile)
               /\ names' = WithRow(names, id, excluded)
       /\ UNCHANGED <<swaps, transactions, sessvars, skills, requests, returned, uivars>>

\* signUp of useAuth, as user u: supabase.from('profiles').insert({id, email,
\* full_name}); an id that has a profile fails on the primary key
SignUpInsert(u, id, full_name) ==
    /\ CanInsertProfile(u, id)
    /\ id \notin DOMAIN profiles
    /\ profiles' = WithRow(profiles, id, NewProfile)
    /\ names' = WithRow(names, id, [full_name |-> full_name, avatar_url |-> NULL])
    /\ UNCHANGED <<swaps, transactions, sessvars, skills, requests, returned, uivars>>

\* ------------------------------------------------ handle_swap_completion

InFlight == {"check", "debit", "credit", "learned", "status", "insert"}

\* a status test that lets a completed swap through
NotInProgressLax(rec) == rec.status \notin {"in_progress", "completed"}

\* IF swap_record.status != 'in_progress'
NotInProgress(rec) == rec.status # "in_progress"

\* IF auth.uid() != swap_record.teacher_id AND auth.uid() != swap_record.learner_id
\* (SQL three-valued logic: with auth.uid() NULL the condition is NULL and
\* the IF branch is not taken)
Unauthorized(u, rec) ==
    /\ u # NULL
    /\ u # rec.teacher_id
    /\ u # rec.learner_id

\* a balance test that only turns down an empty balance
InsufficientCreditsZero(c, rec) == c <= 0

\* IF (SELECT credits FROM profiles WHERE id = learner_id) < total_credits
InsufficientCredits(c, rec) == c < rec.total_credits

\* SET credits = credits - swap_record.total_credits
LearnerDebit(row, amount) == [row EXCEPT !.credits = @ - amount]

\* a teacher update that counts the lesson and forgets the credits
TeacherCreditForgotten(row, amount) == [row EXCEPT !.skills_taught = @ + 1]

\* SET credits = credits + swap_record.total_credits, skills_taught = skills_taught + 1
TeacherCredit(row, amount) ==
    [row EXCEPT !.credits = @ + amount, !.skills_taught = @ + 1]

\* SET skills_learned = skills_learned + 1
LearnerLearned(row) == [row EXCEPT !.skills_learned = @ + 1]

\* SET status = 'completed'
CompletedRow(row) == [row EXCEPT !.status = "completed"]

\* INSERT INTO transactions (...) VALUES (...)
PaymentRow(rec, w) ==
    [from_user_id |-> rec.learner_id, to_user_id |-> rec.teacher_id,
     swap_id |-> w, amount |-> rec.total_credits,
     transaction_type |-> "swap_payment"]

\* a handler that keeps the writes made before the exception
AfterExceptionKept(s) == CommittedProfiles(s)

\* what the block's exception handler leaves of the block's profile writes:
\* the block is a subtransaction, an exception rolls all of it back
AfterException(s) == profiles

\* RETURN: the call ends, its locals are gone, r goes to the caller
Return(s, r) ==
    /\ pc' = [pc EXCEPT ![s] = "idle"]
    /\ response' = r
    /\ swap_uuid' = [swap_uuid EXCEPT ![s] = "w1"]
    /\ swap_record' = [swap_record EXCEPT ![s] = NoRecord]
    /\ wprofiles' = [wprofiles EXCEPT ![s] = Empty]
    /\ wswaps' = [wswaps EXCEPT ![s] = Empty]
    /\ UNCHANGED othervars

\* RETURN before the transfer block: nothing was written
Reject(s, r) ==
    /\ Return(s, r)
    /\ peerWon' = [peerWon EXCEPT ![s] = FALSE]
    /\ UNCHANGED dbvars

\* EXCEPTION WHEN OTHERS THEN result := {success: false, error: SQLERRM}
Raise(s, sqlerrm) ==
    /\ profiles' = AfterException(s)
    /\ Return(s, sqlerrm)
    /\ peerWon' = [peerWon EXCEPT ![s] = FALSE]
    /\ UNCHANGED <<swaps, transactions>>

Running == {s \in Sessions : pc[s] # "idle"}

\* a client calls rpc handle_swap_completion(swap_uuid := w) as caller u:
\* SELECT * INTO swap_record; IF NOT FOUND; status check; authorization check
Call(s, u, w) ==
    /\ pc[s] = "idle"
    /\ Len(transactions) + Cardinality(Running) < MaxPayments
    /\ IF w \notin DOMAIN swaps
       THEN Reject(s, "Swap not found")
       ELSE IF NotInProgress(swaps[w])
       THEN Reject(s, "Swap is not in progress")
       ELSE IF Unauthorized(u, swaps[w])
       THEN Reject(s, "Unauthorized")
       ELSE /\ pc' = [pc EXCEPT ![s] = "check"]
            /\ swap_uuid' = [swap_uuid EXCEPT ![s] = w]
            /\ swap_record' = [swap_record EXCEPT ![s] = swaps[w]]
            /\ UNCHANGED <<dbvars, wprofiles, wswaps, peerWon, response, othervars>>

\* the balance check that opens the transfer block
CheckCredits(s) ==
    /\ pc[s] = "check"
    /\ LET rec == swap_record[s]
       IN IF InsufficientCredits(VisibleProfile(s, rec.learner_id).credits, rec)
          THEN Reject(s, "Insufficient credits")
          ELSE /\ pc' = [pc EXCEPT ![s] = "debit"]
               /\ UNCHANGED <<dbvars, swap_uuid, swap_record,
                              wprofiles, wswaps, peerWon, response, othervars>>

\* one UPDATE profiles statement of the block: waits for the row lock, works
\* on the latest row version, raises check_violation when the CHECK fails
UpdateProfileStep(s, u, row, next) ==
    /\ ~ProfileLocked(s, u)
    /\ IF CreditsCheck(row.credits)
       THEN /\ wprofiles' = [wprofiles EXCEPT ![s] = WriteProfile(s, u, row)]
            /\ pc' = [pc EXCEPT ![s] = next]
            /\ UNCHANGED <<dbvars, swap_uuid, swap_record, wswaps, peerWon,
                           response, othervars>>
       ELSE Raise(s, "check_violation")

\* UPDATE profiles SET credits = credits - total_credits WHERE id = learner_id
Debit(s) ==
    /\ pc[s] = "debit"
    /\ LET rec == swap_record[s]
       IN UpdateProfileStep(s, rec.learner_id,
              LearnerDebit(VisibleProfile(s, rec.learner_id), rec.total_credits),
              "credit")

\* UPDATE profiles SET credits = credits + total_credits, skills_taught + 1
Credit(s) ==
    /\ pc[s] = "credit"
    /\ LET rec == swap_record[s]
       IN UpdateProfileStep(s, rec.teacher_id,
              TeacherCredit(VisibleProfile(s, rec.teacher_id), rec.total_credits),
              "learned")

\* UPDATE profiles SET skills_learned = skills_learned + 1
Learned(s) ==
    /\ pc[s] = "learned"
    /\ LET rec == swap_record[s]
       IN UpdateProfileStep(s, rec.learner_id,
              LearnerLearned(VisibleProfile(s, rec.learner_id)), "status")

\* UPDATE swaps SET status = 'completed' WHERE id = swap_uuid
SetCompleted(s) ==
    /\ pc[s] = "status"
    /\ ~SwapLocked(s, swap_uuid[s])
    /\ wswaps' = [wswaps EXCEPT ![s] =
                    [w \in {swap_uuid[s]} \cap DOMAIN swaps |-> CompletedRow(swaps[w])]]
    /\ pc' = [pc EXCEPT ![s] = "insert"]
    /\ UNCHANGED <<dbvars, swap_uuid, swap_record, wprofiles, peerWon,
                   response, othervars>>

\* INSERT INTO transactions; result := success; RETURN result (commit)
InsertTransaction(s) ==
    /\ pc[s] = "insert"
    /\ IF swap_uuid[s] \in DOMAIN swaps
       THEN /\ transactions' =
                  Append(transactions, PaymentRow(swap_record[s], swap_uuid[s]))
            /\ profiles' = CommittedProfiles(s)
            /\ swaps' = CommittedSwaps(s)
            /\ Return(s, "success")
            /\ peerWon' = [t \in Sessions |->
                             IF t = s THEN FALSE
                             ELSE IF pc[t] # "idle" /\ swap_uuid[t] = swap_uuid[s]
                             THEN TRUE
                             ELSE peerWon[t]]
       \* swap_id REFERENCES swaps(id): the row is gone
       ELSE Raise(s, "foreign_key_violation")

\* the row a session's next UPDATE has to lock
NeededProfile(s) ==
    IF pc[s] = "debit" THEN {swap_record[s].learner_id}
    ELSE IF pc[s] = "credit" THEN {swap_record[s].teacher_id}
    ELSE {}

WaitsFor(s) ==
    {t \in Sessions \ {s} : NeededProfile(s) \cap DOMAIN wprofiles[t] # {}}

\* the lock manager finds a cycle of waiting transactions and aborts one:
\* deadlock_detected is raised inside the block and caught by its handler
Deadlock(s) ==
    /\ \E t \in WaitsFor(s) : s \in WaitsFor(t)
    /\ Raise(s, "deadlock_detected")

\* the swap lifecycle: clients writing every status, one session settling
LifecycleNext ==
    \/ \E r \in Requests, st \in SwapStatuses : InsertSwap(r[2], r[1], st, r[3], r[4], r[5])
    \/ \E u \in Users, w \in SwapIds, st \in SwapStatuses : UpdateSwap(u, w, st)
    \/ \E u \in Callers, w \in SwapIds : Call("s1", u, w)
    \/ CheckCredits("s1")
    \/ Debit("s1")
    \/ Credit("s1")
    \/ Learned("s1")
    \/ SetCompleted("s1")
    \/ InsertTransaction("s1")

LifecycleSpec == Init /\ [][LifecycleNext]_vars

\* users editing their profile rows while one session settles
ProfileNext ==
    \/ \E r \in Requests, st \in {"pending", "in_progress"} :
           InsertSwap(r[2], r[1], st, r[3], r[4], r[5])
    \/ \E u \in Callers, id \in Users, updates \in ProfileUpdates :
           UpdateProfile(u, id, updates)
    \/ \E u \in Callers, w \in SwapIds : Call("s1", u, w)
    \/ CheckCredits("s1")
    \/ Debit("s1")
    \/ Credit("s1")
    \/ Learned("s1")
    \/ SetCompleted("s1")
    \/ InsertTransaction("s1")

ProfileSpec == Init /\ [][ProfileNext]_vars

\* the requests of Requests and one for a session of no duration
CreateRequests == Requests \cup { <<"u2", "u1", 0, "k2", 0>> }

\* teachers managing their skills while swaps are created and one session settles
SkillNext ==
    \/ \E r \in CreateRequests, st \in {"pending", "in_progress"} :
           InsertSwap(r[2], r[1], st, r[3], r[4], r[5])
    \/ \E u \in Users, k \in SkillIds, active \in BOOLEAN : UpdateSkill(u, k, active)
    \/ \E u \in Users, k \in SkillIds : DeleteSkill(u, k)
    \/ \E u \in Callers, w \in SwapIds : Call("s1", u, w)
    \/ CheckCredits("s1")
    \/ Debit("s1")
    \/ Credit("s1")
    \/ Learned("s1")
    \/ SetCompleted("s1")
    \/ InsertTransaction("s1")

SkillSpec == Init /\ [][SkillNext]_vars

\* two participants of one swap deciding on status writes and sending them
RaceNext ==
    \/ \E r \in Requests, st \in SwapStatuses :
           swaps = Empty /\ InsertSwap(r[2], r[1], st, r[3], r[4], r[5])
    \/ \E u \in Users, w \in DOMAIN swaps :
           \E st \in SwapStatuses \ {swaps[w].status} : Decide(u, w, st)
    \/ \E r \in requests : Send(r)

RaceSpec == Init /\ [][RaceNext]_vars

\* a participant repeating the status write a swap has already had, one
\* session settling
RetryNext ==
    \/ \E r \in Requests, st \in SwapStatuses :
           InsertSwap(r[2], r[1], st, r[3], r[4], r[5])
    \/ \E u \in Users, w \in DOMAIN swaps :
           requests = {} /\ Decide(u, w, swaps[w].status)
    \/ \E r \in requests : Send(r)
    \/ \E u \in Callers, w \in SwapIds : Call("s1", u, w)
    \/ CheckCredits("s1")
    \/ Debit("s1")
    \/ Credit("s1")
    \/ Learned("s1")
    \/ SetCompleted("s1")
    \/ InsertTransaction("s1")

RetrySpec == Init /\ [][RetryNext]_vars

\* provisioning running again and again while one swap is settled
ProvisionNext ==
    \/ \E r \in Requests :
           swaps = Empty /\ InsertSwap(r[2], r[1], "in_progress", r[3], r[4], r[5])
    \/ \E id \in ProvisionIds, full_name \in FullNames, avatar_url \in AvatarUrls :
           HandleNewUser(id, full_name, avatar_url)
    \/ \E id \in ProvisionIds, full_name \in FullNames \ {NULL} :
           SignUpInsert(id, id, full_name)
    \/ \E u \in Callers, w \in SwapIds : Call("s1", u, w)
    \/ CheckCredits("s1")
    \/ Debit("s1")
    \/ Credit("s1")
    \/ Learned("s1")
    \/ SetCompleted("s1")
    \/ InsertTransaction("s1")

ProvisionSpec == Init /\ [][ProvisionNext]_vars

\* ----------------------------------------------------------------- SkillForm

Includes(seq, x) == \E i \in DOMAIN seq : seq[i] = x

\* tags.filter(tag => tag !== tagToRemove)
RECURSIVE Filter(_, _)
Filter(seq, x) ==
    IF seq = <<>> THEN <<>>
    ELSE IF Head(seq) = x THEN Filter(Tail(seq), x)
    ELSE <<Head(seq)>> \o Filter(Tail(seq), x)

\* Enter in the tag input holding t
handleTagAdd(t) ==
    /\ ~Includes(tags, t)
    /\ Len(tags) < MaxTags
    /\ tags' = Append(tags, t)
    /\ UNCHANGED <<aiLoading, backvars, searchvars, authvars, geovars>>

\* click on the x of tag t
handleTagRemove(t) ==
    /\ Includes(tags, t)
    /\ tags' = Filter(tags, t)
    /\ UNCHANGED <<aiLoading, backvars, searchvars, authvars, geovars>>

\* click on AI Assist (disabled while aiLoading): the call goes out
generateAIContent ==
    /\ ~aiLoading
    /\ aiLoading' = TRUE
    /\ UNCHANGED <<tags, backvars, searchvars, authvars, geovars>>

\* the call comes back with data: tags: data.tags
AISuccess(list) ==
    /\ aiLoading
    /\ tags' = list
    /\ aiLoading' = FALSE
    /\ UNCHANGED <<backvars, searchvars, authvars, geovars>>

\* the call fails: tags: [formData.title.toLowerCase()]
AIFailure ==
    /\ aiLoading
    /\ tags' = <<TitleTag>>
    /\ aiLoading' = FALSE
    /\ UNCHANGED <<backvars, searchvars, authvars, geovars>>

FormNext ==
    \/ \E t \in TagInputs : handleTagAdd(t)
    \/ \E t \in TagInputs \cup {TitleTag} : handleTagRemove(t)
    \/ generateAIContent
    \/ \E list \in AITagLists : AISuccess(list)
    \/ AIFailure

FormSpec == Init /\ [][FormNext]_vars

\* ------------------------------------------------------- SkillSearch and App

\* the search effect runs for a render with the filters f: its cleanup
\* clears the timeout of the run before, then it sets a new one
SearchEffect(f) == {[filters |-> f, remaining |-> DebounceTicks]}

\* handleFilterChange / clearFilters: setFilters stores a new object, the
\* component renders again and the effect runs
handleFilterChange(f) ==
    /\ filters' = f
    /\ timer' = SearchEffect(f)
    /\ calls' = 0
    /\ UNCHANGED <<inflight, lastIssued, shown, loading, appError,
                   backvars, formvars, authvars, geovars>>

\* 100 ms pass; a timeout that is due fires before more time passes
Tick ==
    /\ timer # {}
    /\ \A t \in timer : t.remaining > 0
    /\ timer' = {[t EXCEPT !.remaining = @ - 1] : t \in timer}
    /\ UNCHANGED <<filters, calls, inflight, lastIssued, shown, loading, appError,
                   backvars, formvars, authvars, geovars>>

\* fetchSkills(f) up to its await: setLoading(true), setError(null), the
\* query goes out; App renders again when one of the two states changed,
\* which hands SkillSearch a new handleSearch and runs the search effect
FetchIssued(f, pending) ==
    /\ Len(inflight) < MaxInFlight
    /\ inflight' = Append(inflight, f)
    /\ lastIssued' = f
    /\ loading' = TRUE
    /\ appError' = FALSE
    /\ timer' = IF loading # TRUE \/ appError # FALSE
                THEN SearchEffect(filters) ELSE pending

\* a timeout is due: onSearch(filters) with the filters of its render
TimerFires(t) ==
    /\ t \in timer
    /\ t.remaining = 0
    /\ FetchIssued(t.filters, timer \ {t})
    /\ calls' = IF calls < CallsCap THEN calls + 1 ELSE calls
    /\ UNCHANGED <<filters, shown, backvars, formvars, authvars, geovars>>

\* useEffect on [user]: a user has signed in, fetchSkills() without filters
\* (the same query as with the default filters)
UserEffect ==
    /\ FetchIssued(DefaultFilters, timer)
    /\ UNCHANGED <<filters, calls, shown, backvars, formvars, authvars, geovars>>

Without(seq, i) == SubSeq(seq, 1, i - 1) \o SubSeq(seq, i + 1, Len(seq))

\* the response of the i-th call in flight arrives with data:
\* setSkills(data), setLoading(false); App renders again
FetchSucceeds(i) ==
    /\ i \in DOMAIN inflight
    /\ inflight' = Without(inflight, i)
    /\ shown' = inflight[i]
    /\ loading' = FALSE
    /\ timer' = SearchEffect(filters)
    /\ UNCHANGED <<filters, calls, lastIssued, appError,
                   backvars, formvars, authvars, geovars>>

\* the response of the i-th call in flight is an error:
\* setError('Failed to load skills'), setLoading(false)
FetchFails(i) ==
    /\ i \in DOMAIN inflight
    /\ inflight' = Without(inflight, i)
    /\ appError' = TRUE
    /\ loading' = FALSE
    /\ timer' = IF loading # FALSE \/ appError # TRUE
                THEN SearchEffect(filters) ELSE timer
    /\ UNCHANGED <<filters, calls, lastIssued, shown,
                   backvars, formvars, authvars, geovars>>

SearchNext ==
    \/ \E f \in FilterValues : handleFilterChange(f)
    \/ Tick
    \/ \E t \in timer : TimerFires(t)
    \/ UserEffect
    \/ \E i \in 1..MaxInFlight : FetchSucceeds(i)
    \/ \E i \in 1..MaxInFlight : FetchFails(i)

SearchSpec == Init /\ [][SearchNext]_vars

\* ------------------------------------------------------------------- useAuth

\* setState({user, profile: profile || null, session, loading: false}) for
\* the session of u; profile is the row maybeSingle() found, or NULL
SignedInState(u, profile) ==
    [user |-> u, profile |-> profile, session |-> u, loading |-> FALSE]

\* setState({user: null, profile: null, session: null, loading: false})
SignedOutState == [user |-> NULL, profile |-> NULL, session |-> NULL, loading |-> FALSE]

\* getInitialSession: supabase.auth.getSession() resolves with the session
\* of u (NULL: no session); with a session the profile is fetched next
GetSessionResolves(u) ==
    LET p == [await |-> "getSession", user |-> NULL]
    IN /\ p \in authPending
       /\ IF u # NULL
          THEN /\ authPending' =
                     (authPending \ {p}) \cup {[await |-> "initialProfile", user |-> u]}
               /\ auth' = auth
          ELSE /\ authPending' = authPending \ {p}
               /\ auth' = [auth EXCEPT !.loading = FALSE]
       /\ UNCHANGED <<signedOut, backvars, formvars, searchvars, geovars>>

\* onAuthStateChange delivers SIGNED_IN with the session of u: the handler
\* starts the profile fetch and awaits it
SignedIn(u) ==
    /\ authPending' = authPending \cup {[await |-> "profile", user |-> u]}
    /\ signedOut' = FALSE
    /\ UNCHANGED <<auth, backvars, formvars, searchvars, geovars>>

\* a profile fetch resolves, with the row or without one: the code after
\* the await runs
ProfileResolves(p, found) ==
    /\ p \in authPending
    /\ p.await \in {"initialProfile", "profile"}
    /\ authPending' = authPending \ {p}
    /\ auth' = SignedInState(p.user, IF found THEN p.user ELSE NULL)
    /\ UNCHANGED <<signedOut, backvars, formvars, searchvars, geovars>>

\* onAuthStateChange delivers SIGNED_OUT
SignedOut ==
    /\ auth' = SignedOutState
    /\ signedOut' = TRUE
    /\ UNCHANGED <<authPending, backvars, formvars, searchvars, geovars>>

AuthNext ==
    \/ \E u \in AuthUsers \cup {NULL} : GetSessionResolves(u)
    \/ \E u \in AuthUsers : SignedIn(u)
    \/ \E p \in authPending, found \in BOOLEAN : ProfileResolves(p, found)
    \/ SignedOut

AuthSpec == Init /\ [][AuthNext]_vars

\* ------------------------------------------------------------ useGeolocation

getCurrentLocation ==
    /\ IF ~supported
       THEN /\ geo' = [geo EXCEPT
                         !.error = "Geolocation is not supported by this browser",
                         !.loading = FALSE]
            /\ outstanding' = outstanding
       ELSE /\ outstanding < MaxPositionRequests
            /\ geo' = [geo EXCEPT !.loading = TRUE, !.error = NULL]
            /\ outstanding' = outstanding + 1
    /\ UNCHANGED <<supported, backvars, formvars, searchvars, authvars>>

\* the success callback of getCurrentPosition
PositionSuccess(position) ==
    /\ outstanding > 0
    /\ outstanding' = outstanding - 1
    /\ geo' = [location |-> position, loading |-> FALSE, error |-> NULL]
    /\ UNCHANGED <<supported, backvars, formvars, searchvars, authvars>>

\* the error callback of getCurrentPosition
PositionError(errorMessage) ==
    /\ outstanding > 0
    /\ outstanding' = outstanding - 1
    /\ geo' = [location |-> NULL, loading |-> FALSE, error |-> errorMessage]
    /\ UNCHANGED <<supported, backvars, formvars, searchvars, authvars>>

setManualLocation(place) ==
    /\ geo' = [location |-> place, loading |-> FALSE, error |-> NULL]
    /\ UNCHANGED <<outstanding, supported, backvars, formvars, searchvars, authvars>>

clearLocation ==
    /\ geo' = [location |-> NULL, loading |-> FALSE, error |-> NULL]
    /\ UNCHANGED <<outstanding, supported, backvars, formvars, searchvars, authvars>>

GeoNext ==
    \/ getCurrentLocation
    \/ \E position \in Positions : PositionSuccess(position)
    \/ \E errorMessage \in PositionErrors : PositionError(errorMessage)
    \/ \E place \in ManualLocations : setManualLocation(place)
    \/ clearLocation

GeoSpec == GeoInit /\ [][GeoNext]_vars

\* two concurrent sessions calling handle_swap_completion, clients writing swaps
Next ==
    \/ \E r \in Requests, st \in SettleStatuses : InsertSwap(r[2], r[1], st, r[3], r[4], r[5])
    \/ \E u \in Users, w \in SwapIds, st \in SettleStatuses : UpdateSwap(u, w, st)
    \/ \E s \in Sessions, u \in Callers, w \in SwapIds : Call(s, u, w)
    \/ \E s \in Sessions : CheckCredits(s)
    \/ \E s \in Sessions : Debit(s)
    \/ \E s \in Sessions : Credit(s)
    \/ \E s \in Sessions : Learned(s)
    \/ \E s \in Sessions : SetCompleted(s)
    \/ \E s \in Sessions : InsertTransaction(s)
    \/ \E s \in Sessions : Deadlock(s)

Spec == Init /\ [][Next]_vars

TypeOK ==
    /\ \A u \in Users : profiles[u].credits \in Int
    /\ DOMAIN swaps \subseteq SwapIds
    /\ \A s \in Sessions : pc[s] \in InFlight \cup {"idle"}

\* ------------------------------------------------------------ properties

RECURSIVE SumCredits(_)
SumCredits(S) ==
    IF S = {} THEN 0
    ELSE LET u == CHOOSE x \in S : TRUE
         IN profiles[u].credits + SumCredits(S \ {u})

RECURSIVE SumCreditsNext(_)
SumCreditsNext(S) ==
    IF S = {} THEN 0
    ELSE LET u == CHOOSE x \in S : TRUE
         IN profiles'[u].credits + SumCreditsNext(S \ {u})

\* session s returns from handle_swap_completion in this step
Returns(s) == pc[s] # "idle" /\ pc'[s] = "idle"

\* session s returns success in this step
Succeeds(s) == Returns(s) /\ response' = "success"

\* the swap_payment rows that reference swap w
PaymentsOf(w) == {i \in DOMAIN transactions : transactions[i].swap_id = w}

AllIdle == \A s \in Sessions : pc[s] = "idle"

\* C1: of two calls that run concurrently on the same in_progress swap
\* exactly one reports success: a call that overlapped a successful call on
\* its swap returns a failure and changes no balance, counter, swap or
\* ledger row (every failure result is accepted as the other call's error).
C1_ExactlyOneSettles ==
    [][\A s \in Sessions :
          (peerWon[s] /\ Returns(s)) =>
              /\ response' # "success"
              /\ UNCHANGED dbvars]_vars

\* C2: a settle call on a swap that a settle call has already completed
\* fails with the invalid-state error and changes nothing; the successful
\* call is the one that makes the swap completed and adds one ledger row.
C2_SecondSettleRejected ==
    [][\A s \in Sessions :
          /\ Succeeds(s) =>
                /\ swaps'[swap_uuid[s]].status = "completed"
                /\ Len(transactions') = Len(transactions) + 1
          /\ \A u \in Callers, w \in DOMAIN swaps :
                (/\ Call(s, u, w)
                 /\ swaps[w].status = "completed"
                 /\ PaymentsOf(w) # {}) =>
                    /\ response' = "Swap is not in progress"
                    /\ pc'[s] = "idle"
                    /\ UNCHANGED dbvars]_vars

\* C2 witness: the only swap has been settled once, a second call on it has
\* been answered with the invalid-state error, and there is still one row.
C2_Witness ==
    /\ AllIdle
    /\ DOMAIN swaps = {"w1"}
    /\ swaps["w1"].status = "completed"
    /\ Len(transactions) = 1
    /\ response = "Swap is not in progress"

\* C3: no step of handle_swap_completion changes the total of all profile
\* credit balances.
C3_Conservation ==
    [][(pc' # pc) => SumCreditsNext(Users) = SumCredits(Users)]_vars

\* C3 witness: a settlement of 40 credits from u2 to u1 has been committed.
C3_Witness ==
    /\ Len(transactions) = 1
    /\ profiles["u2"].credits = DefaultCredits - 40
    /\ profiles["u1"].credits = DefaultCredits + 40

\* C4: no profile balance is ever negative, and a settlement that succeeds
\* leaves the learner with exactly old balance minus total_credits and the
\* teacher with exactly old balance plus total_credits.
C4_BalancesExact ==
    [][/\ \A u \in Users : profiles'[u].credits >= 0
       /\ \A s \in Sessions :
             Succeeds(s) =>
                LET rec == swap_record[s]
                IN /\ profiles'[rec.learner_id].credits =
                         profiles[rec.learner_id].credits - rec.total_credits
                   /\ profiles'[rec.teacher_id].credits =
                         profiles[rec.teacher_id].credits + rec.total_credits]_vars

\* what a whole settlement of swap record rec makes of profile row u
SettledProfile(u, rec) ==
    [credits |-> profiles[u].credits
                   + (IF u = rec.teacher_id THEN rec.total_credits ELSE 0)
                   - (IF u = rec.learner_id THEN rec.total_credits ELSE 0),
     skills_taught |-> profiles[u].skills_taught
                   + (IF u = rec.teacher_id THEN 1 ELSE 0),
     skills_learned |-> profiles[u].skills_learned
                   + (IF u = rec.learner_id THEN 1 ELSE 0)]

\* the whole effect of session s's settlement becomes visible in this step
WholeSettlement(s) ==
    LET rec == swap_record[s]
        w == swap_uuid[s]
    IN /\ Succeeds(s)
       /\ profiles' = [u \in Users |-> SettledProfile(u, rec)]
       /\ swaps' = [swaps EXCEPT ![w].status = "completed"]
       /\ Len(transactions') = Len(transactions) + 1
       /\ transactions'[Len(transactions')].swap_id = w
       /\ SubSeq(transactions', 1, Len(transactions)) = transactions

\* C5: the settlement effect is all-or-nothing: the committed profiles and
\* ledger change only in a step that applies a whole settlement (debit,
\* credit, both counters, status, ledger row), and a call that returns a
\* failure, also after some of its updates ran, leaves every table as it was.
C5_AllOrNothing ==
    [][/\ (profiles' # profiles \/ transactions' # transactions) =>
             \E s \in Sessions : WholeSettlement(s)
       /\ \A s \in Sessions :
             (Returns(s) /\ response' # "success") => UNCHANGED dbvars]_vars

\* C5 witness: a call failed after its debit had run (the deadlock arises
\* at the teacher's update) and every table is as it was before.
C5_Witness ==
    /\ response = "deadlock_detected"
    /\ transactions = <<>>
    /\ \A u \in Users : profiles[u] = NewProfile

C7_SuccessPostState ==
    [][\A s \in Sessions :
          Succeeds(s) =>
             LET rec == swap_record[s]
                 w == swap_uuid[s]
                 L == rec.learner_id
                 T == rec.teacher_id
             IN /\ profiles'[L].credits = profiles[L].credits - rec.total_credits
                /\ profiles'[T].credits = profiles[T].credits + rec.total_credits
                /\ profiles'[T].skills_taught = profiles[T].skills_taught + 1
                /\ profiles'[L].skills_learned = profiles[L].skills_learned + 1
                /\ swaps'[w].status = "completed"
                /\ transactions' = Append(transactions,
                       [from_user_id |-> L, to_user_id |-> T, swap_id |-> w,
                        amount |-> rec.total_credits,
                        transaction_type |-> "swap_payment"])]_vars

\* C8: settle reports the error of the first failing precondition, in the
\* order swap exists, status in_progress, actor is teacher or learner,
\* balance covers total_credits; a rejected call changes nothing.
C8_PreconditionOrder ==
    [][\A s \in Sessions :
          /\ \A u \in Callers, w \in SwapIds :
                Call(s, u, w) =>
                   IF w \notin DOMAIN swaps
                   THEN response' = "Swap not found" /\ UNCHANGED dbvars
                   ELSE IF swaps[w].status # "in_progress"
                   THEN response' = "Swap is not in progress" /\ UNCHANGED dbvars
                   ELSE IF u \notin {swaps[w].teacher_id, swaps[w].learner_id}
                   THEN response' = "Unauthorized" /\ UNCHANGED dbvars
                   ELSE pc'[s] = "check"
          /\ (pc[s] = "check" /\ pc'[s] = "idle") =>
                response' = "Insufficient credits" /\ UNCHANGED dbvars]_vars

\* the legal edges of the swap state machine
LegalEdges ==
    { <<"pending", "accepted">>, <<"pending", "declined">>,
      <<"pending", "cancelled">>, <<"accepted", "in_progress">>,
      <<"accepted", "cancelled">>, <<"in_progress", "completed">> }

\* C9: a swap's status changes only along the legal edges, whatever path a
\* teacher or learner uses to write the swap.
C9_LegalTransitions ==
    [][\A w \in DOMAIN swaps :
          swaps'[w].status # swaps[w].status =>
             <<swaps[w].status, swaps'[w].status>> \in LegalEdges]_vars

\* C10: a pending swap is accepted or declined only by its teacher: no
\* write of another actor, the learner included, moves it out of pending
\* into accepted or declined.
C10_OnlyTeacherResponds ==
    [][\A u \in Users, w \in SwapIds, st \in {"accepted", "declined"} :
          (/\ w \in DOMAIN swaps
           /\ swaps[w].status = "pending"
           /\ UpdateSwap(u, w, st)) => u = swaps[w].teacher_id]_vars

\* C11: the credits of a profile change only in the step in which a call of
\* handle_swap_completion returns success; no other operation of a user
\* (updating the own profile row included) changes them.
C11_CreditsOnlyBySettlement ==
    [][\A u \in Users :
          profiles'[u].credits # profiles[u].credits
              => \E s \in Sessions : Succeeds(s)]_vars

\* C12: every completed swap has exactly one swap_payment row in the ledger
\* and every swap in another status has none.
C12_OnePaymentPerCompletedSwap ==
    \A w \in DOMAIN swaps :
        Cardinality(PaymentsOf(w)) = IF swaps[w].status = "completed" THEN 1 ELSE 0

\* a call stands at its debit with a balance check that has gone stale:
\* another swap of the same learner was settled after the check passed
StaleCheck ==
    \E s \in Sessions :
        /\ pc[s] = "debit"
        /\ profiles[swap_record[s].learner_id].credits < swap_record[s].total_credits
        /\ swap_record[s].teacher_id # swap_record[s].learner_id
        /\ \E i \in DOMAIN transactions :
               /\ transactions[i].from_user_id = swap_record[s].learner_id
               /\ transactions[i].swap_id # swap_uuid[s]

\* a call that returns while the learner's committed balance is below its
\* swap's total has failed and has written nothing: no balance is overdrawn
NoOverdraw ==
    [][\A s \in Sessions :
          (/\ Returns(s)
           /\ profiles[swap_record[s].learner_id].credits
                  < swap_record[s].total_credits)
              => /\ response' # "success"
                 /\ UNCHANGED dbvars]_vars

\* the failures that report a conflict between concurrent transactions
ConflictErrors == {"serialization_failure", "deadlock_detected"}

\* C13: when calls settle two different swaps of one learner concurrently
\* and the balance covers only one, the call that finds the balance short
\* fails with the insufficient-credits error or a conflict error, and
\* changes no balance, counter, swap or ledger row.
C13_LoserInsufficientCredits ==
    [][\A s \in Sessions :
          (/\ Returns(s)
           /\ profiles[swap_record[s].learner_id].credits
                  < swap_record[s].total_credits)
              => /\ response' \in {"Insufficient credits"} \cup ConflictErrors
                 /\ UNCHANGED dbvars]_vars

\* C14: a swap that is in_progress or completed is never cancelled.
C14_NoCancelAfterStart ==
    [][\A w \in DOMAIN swaps :
          (swaps[w].status \in {"in_progress", "completed"} /\ w \in DOMAIN swaps')
              => swaps'[w].status # "cancelled"]_vars

\* C16: every swap has a teacher different from its learner, both naming
\* existing profiles, and a total_credits above zero.
C16_WellFormedSwaps ==
    \A w \in DOMAIN swaps :
        /\ swaps[w].teacher_id # swaps[w].learner_id
        /\ swaps[w].teacher_id \in DOMAIN profiles
        /\ swaps[w].learner_id \in DOMAIN profiles
        /\ swaps[w].total_credits > 0

\* C17: a swap is created only with a duration above zero, for an active
\* skill and with a teacher other than its learner, and it starts pending.
C17_CreateValidated ==
    [][\A w \in DOMAIN swaps' \ DOMAIN swaps :
          /\ swaps'[w].duration_hours > 0
          /\ skills[swaps'[w].skill_id].is_active
          /\ swaps'[w].teacher_id # swaps'[w].learner_id
          /\ swaps'[w].status = "pending"]_vars

\* C18: no operation of a user removes a swap row.
C18_SwapsNeverRemoved ==
    [][DOMAIN swaps \subseteq DOMAIN swaps']_vars

\* C19: the ledger is append-only: the rows it holds stay as they are.
C19_LedgerAppendOnly ==
    [][/\ Len(transactions') >= Len(transactions)
       /\ SubSeq(transactions', 1, Len(transactions)) = transactions]_vars

\* C15: of the status writes that race from one prior status of a swap
\* exactly one takes effect: a write that arrives after the status it was
\* decided on is gone leaves the swap as the winner put it.
C15_OneRacerWins ==
    [][\A r \in requests :
          (requests' = requests \ {r} /\ swaps[r.swap].status # r.from)
              => swaps' = swaps]_vars

\* C20: repeating the status write a swap has already had sends back the
\* row as it is and changes nothing; a call of handle_swap_completion on a
\* completed swap is answered with an error and settles nothing again.
C20_RepeatIsNoOp ==
    [][/\ \A r \in requests :
             (requests' = requests \ {r} /\ swaps[r.swap].status = r.to)
                 => /\ returned' = [rows |-> 1, status |-> r.to, changed |-> FALSE]
                    /\ UNCHANGED dbvars
       /\ \A s \in Sessions, u \in Callers, w \in DOMAIN swaps :
             (Call(s, u, w) /\ swaps[w].status = "completed")
                 => /\ response' \notin {"success", "none"}
                    /\ pc' = pc
                    /\ UNCHANGED dbvars]_vars

\* C20 witness: a repeated status write has come back with the unchanged
\* row, and a call on a swap that was settled once has been answered with
\* the error, the ledger still holding one row for it
C20_Witness ==
    /\ returned.rows = 1
    /\ ~returned.changed
    /\ returned.status \in {"accepted", "in_progress"}
    /\ response = "Swap is not in progress"
    /\ AllIdle
    /\ \E w \in DOMAIN swaps :
           swaps[w].status = "completed" /\ Cardinality(PaymentsOf(w)) = 1

\* C21: provisioning is idempotent per identity: a run of the trigger or of
\* the client's profile insert leaves the identity with its one profile,
\* gives a new profile the default balance, leaves the balance and counters
\* of a profile that exists as they are, and adds no ledger row.
C21_ProvisioningIdempotent ==
    [][\A id \in ProvisionIds :
          (\E full_name \in FullNames, avatar_url \in AvatarUrls :
              \/ HandleNewUser(id, full_name, avatar_url)
              \/ SignUpInsert(id, id, full_name))
              => /\ DOMAIN profiles' = DOMAIN profiles \cup {id}
                 /\ \A u \in DOMAIN profiles : profiles'[u] = profiles[u]
                 /\ id \notin DOMAIN profiles => profiles'[id].credits = DefaultCredits
                 /\ transactions' = transactions]_vars

\* C21 witness: the new identity has its profile with the default balance,
\* and the identity whose balance a settlement has moved has been
\* provisioned again (its name and picture are the incoming ones) and still
\* has the moved balance
C21_Witness ==
    /\ "u4" \in DOMAIN profiles
    /\ profiles["u4"].credits = DefaultCredits
    /\ names["u2"] = [full_name |-> "bob", avatar_url |-> "pic"]
    /\ profiles["u2"].credits # DefaultCredits
    /\ transactions # <<>>

\* C22: provisioning for an identity that has a profile keeps every name
\* and picture that is not null; only a null field takes the incoming value.
C22_ExistingFieldsKept ==
    [][\A id \in DOMAIN names :
          /\ names[id].full_name # NULL => names'[id].full_name = names[id].full_name
          /\ names[id].avatar_url # NULL
                => names'[id].avatar_url = names[id].avatar_url]_vars

\* the fixed failures handle_swap_completion names itself, and a conflict
ErrorKinds ==
    {"Swap not found", "Swap is not in progress", "Unauthorized",
     "Insufficient credits", "Conflict"}

\* C23: every failure a call returns is one of the fixed error kinds; the
\* message of a failure raised by the storage engine is never returned.
C23_FixedErrorKinds ==
    response \in {"none", "success"} \cup ErrorKinds

\* the amounts of the ledger rows 1..n that u received, less those u paid
RECURSIVE LedgerNet(_, _)
LedgerNet(u, n) ==
    IF n = 0 THEN 0
    ELSE LedgerNet(u, n - 1)
         + (IF transactions[n].to_user_id = u THEN transactions[n].amount ELSE 0)
         - (IF transactions[n].from_user_id = u THEN transactions[n].amount ELSE 0)

\* C24: the ledger explains every balance: a profile's credits are the
\* signup balance plus what the ledger says it received less what it paid.
C24_LedgerExplainsBalances ==
    \A u \in DOMAIN profiles :
        profiles[u].credits = DefaultCredits + LedgerNet(u, Len(transactions))

\* C25: the form's tag list holds at most 5 tags and no tag twice.
C25_TagsBounded ==
    /\ Len(tags) <= MaxTags
    /\ \A i, j \in DOMAIN tags : tags[i] = tags[j] => i = j

\* C26: the search is debounced: at most one timeout is pending, a timeout
\* that fires carries the current filters, and while the filters stay as
\* they are onSearch is called once.
C26_SingleDebouncedCall ==
    /\ Cardinality(timer) <= 1
    /\ \A t \in timer : t.filters = filters
    /\ calls <= 1

\* C27: the search quiesces: once onSearch has been called for the filters
\* as they are and every fetch has come back, no timeout is pending, so no
\* further onSearch follows until the user changes a filter.
C27_SearchQuiesces ==
    (calls >= 1 /\ inflight = <<>>) => timer = {}

\* C28: once every fetchSkills call has come back without an error, the
\* list shown is the answer to the call issued last; and loading is false
\* only when no call is in flight.
C28_LatestFetchWins ==
    /\ (inflight = <<>> /\ shown # "none" /\ ~appError) => shown = lastIssued
    /\ ~loading => inflight = <<>>

\* C29: from the handling of SIGNED_OUT until the next SIGNED_IN the state
\* has user, profile and session null and loading false, whatever lookups
\* of before the sign-out resolve in between.
C29_SignedOutStays ==
    signedOut => auth = SignedOutState

\* C30: location and error are never both set, and loading is true only
\* while a position request is outstanding.
C30_LocationXorError ==
    /\ ~(geo.location # NULL /\ geo.error # NULL)
    /\ geo.loading => outstanding > 0

====
